---------------------------- MODULE Spec2Model ----------------------------
(***************************************************************************)
(* A model of tcreader.py: the timecode codec (seconds_to_timecode,        *)
(* timecode_to_seconds, add_timecodes), the four metadata extractors and   *)
(* the report builder process_metadata.                                    *)
(*                                                                         *)
(* Strings the code inspects character by character (timecodes, numeric    *)
(* tag values) are sequences of one-character strings.  Python floats are  *)
(* exact rationals [n, d] in lowest terms; round() is Python's             *)
(* round-half-to-even.  A Python call either returns, [val |-> v], or      *)
(* raises, [exc |-> name].                                                 *)
(***************************************************************************)
EXTENDS Integers, Sequences, FiniteSets, TLC

VARIABLES
    seconds, frame_rate, timecode, total_seconds, codec_pc,   \* codec calls
    tc1, tc2, tc_sum, add_pc,                                 \* add_timecodes calls
    metadata, extracted,                                      \* extractor calls
    file_paths, file_type, file_index, result_message,        \* process_metadata
    temp_files, outcome

codec_vars   == <<seconds, frame_rate, timecode, total_seconds, codec_pc>>
add_vars     == <<tc1, tc2, tc_sum, add_pc>>
extract_vars == <<metadata, extracted>>
report_vars  == <<file_paths, file_type, file_index, result_message,
                  temp_files, outcome>>
vars == <<codec_vars, add_vars, extract_vars, report_vars>>

---------------------------------------------------------------------------
(* Results of Python calls *)

Return(v) == [val |-> v]
Raise(e)  == [exc |-> e]
Raised(r) == "exc" \in DOMAIN r

---------------------------------------------------------------------------
(* Exact arithmetic standing for float arithmetic *)

RECURSIVE GCD(_, _)
GCD(a, b) == IF b = 0 THEN a ELSE GCD(b, a % b)

Abs(a) == IF a < 0 THEN -a ELSE a

\* the rational n/d (d > 0) in lowest terms
Rat(n, d) == LET g == GCD(Abs(n), d) IN [n |-> n \div g, d |-> d \div g]

FromInt(k) == [n |-> k, d |-> 1]

RatMul(a, b) ==
    LET g1 == GCD(Abs(a.n), b.d)
        g2 == GCD(Abs(b.n), a.d)
    IN  Rat((a.n \div g1) * (b.n \div g2), (a.d \div g2) * (b.d \div g1))

RatAdd(a, b) ==
    LET g == GCD(a.d, b.d)
    IN  Rat(a.n * (b.d \div g) + b.n * (a.d \div g), (a.d \div g) * b.d)

\* a / b for b > 0
RatDiv(a, b) == RatMul(a, [n |-> b.d, d |-> b.n])

RatLeq(a, b) == a.n * b.d <= b.n * a.d

RatAbsDiff(a, b) ==
    LET x == RatAdd(a, [n |-> -b.n, d |-> b.d])
    IN  [n |-> Abs(x.n), d |-> x.d]

\* Python's round(x): nearest integer, ties to the even one
round(x) ==
    LET q == x.n \div x.d
        r == x.n % x.d
    IN  IF 2 * r < x.d THEN q
        ELSE IF 2 * r > x.d THEN q + 1
        ELSE IF q % 2 = 0 THEN q ELSE q + 1

---------------------------------------------------------------------------
(* Strings of characters *)

Digits == <<"0", "1", "2", "3", "4", "5", "6", "7", "8", "9">>

IsDigit(c) == \E k \in 1..10 : Digits[k] = c

DigitVal(c) == (CHOOSE k \in 1..10 : Digits[k] = c) - 1

\* str(n) for n >= 0
RECURSIVE Decimal(_)
Decimal(n) ==
    IF n < 10 THEN <<Digits[n + 1]>>
    ELSE Decimal(n \div 10) \o <<Digits[(n % 10) + 1]>>

\* the format specification :02 -- zero-padded to a MINIMUM width of two
Format02(n) ==
    LET s == Decimal(n) IN IF Len(s) < 2 THEN <<"0">> \o s ELSE s

IsDigitString(s) == Len(s) > 0 /\ \A i \in 1..Len(s) : IsDigit(s[i])

\* the value of a digit string
RECURSIVE DigitsValue(_)
DigitsValue(s) ==
    IF Len(s) = 0 THEN 0
    ELSE 10 * DigitsValue(SubSeq(s, 1, Len(s) - 1)) + DigitVal(s[Len(s)])

\* int(s) on a string: ValueError unless s is a string of digits
int(s) == IF IsDigitString(s) THEN Return(DigitsValue(s)) ELSE Raise("ValueError")

\* s.split(sep) for a one-character separator
RECURSIVE split(_, _)
split(s, sep) ==
    IF \A i \in 1..Len(s) : s[i] # sep THEN <<s>>
    ELSE LET k == CHOOSE i \in 1..Len(s) :
                      s[i] = sep /\ \A j \in 1..(i - 1) : s[j] # sep
         IN  <<SubSeq(s, 1, k - 1)>> \o split(SubSeq(s, k + 1, Len(s)), sep)

---------------------------------------------------------------------------
(* Timecode codec *)

\* seconds_to_timecode(seconds, frame_rate): seconds and frame_rate rationals
seconds_to_timecode(secs_in, rate) ==
    IF round(rate) = 0 THEN Raise("ZeroDivisionError")
    ELSE
    LET total_frames == round(RatMul(secs_in, rate))
        frames       == total_frames % round(rate)
        total_secs   == total_frames \div round(rate)
        hours        == total_secs \div 3600
        minutes      == (total_secs % 3600) \div 60
        secs         == total_secs % 60
    IN  Return(Format02(hours) \o <<":">> \o Format02(minutes) \o <<":">>
               \o Format02(secs) \o <<":">> \o Format02(frames))

\* the pattern (\d{2}):(\d{2}):(\d{2}):(\d{2}); "d" stands for \d
TimecodePattern == <<"d", "d", ":", "d", "d", ":", "d", "d", ":", "d", "d">>

\* a variant of re_match that anchors the pattern at the end as well
\* (re.fullmatch)
re_fullmatch(pattern, s) ==
    /\ Len(s) = Len(pattern)
    /\ \A i \in 1..Len(pattern) :
          IF pattern[i] = "d" THEN IsDigit(s[i]) ELSE s[i] = pattern[i]

\* re.match(pattern, s): the pattern matches a prefix of s
re_match(pattern, s) ==
    /\ Len(s) >= Len(pattern)
    /\ \A i \in 1..Len(pattern) :
          IF pattern[i] = "d" THEN IsDigit(s[i]) ELSE s[i] = pattern[i]

\* a variant of timecode_to_seconds that drops the frames field
timecode_to_seconds_no_frames(tc, rate) ==
    IF ~re_match(TimecodePattern, tc) THEN FromInt(0)
    ELSE FromInt(DigitsValue(SubSeq(tc, 1, 2)) * 3600
                 + DigitsValue(SubSeq(tc, 4, 5)) * 60
                 + DigitsValue(SubSeq(tc, 7, 8)))

\* timecode_to_seconds(timecode, frame_rate): a rational (0 on no match)
timecode_to_seconds(tc, rate) ==
    IF ~re_match(TimecodePattern, tc) THEN FromInt(0)
    ELSE
    LET hours   == DigitsValue(SubSeq(tc, 1, 2))
        minutes == DigitsValue(SubSeq(tc, 4, 5))
        secs    == DigitsValue(SubSeq(tc, 7, 8))
        frames  == DigitsValue(SubSeq(tc, 10, 11))
    IN  RatAdd(FromInt(hours * 3600 + minutes * 60 + secs),
               RatDiv(FromInt(frames), rate))

\* a variant of add_timecodes that adds at the default rate 23.976
add_timecodes_default_rate(a, b) ==
    LET rate  == Rat(23976, 1000)
        total == RatAdd(timecode_to_seconds(a, rate), timecode_to_seconds(b, rate))
    IN  seconds_to_timecode(total, rate)

\* add_timecodes(tc1, tc2)
add_timecodes(a, b) ==
    LET rate     == FromInt(24)
        seconds1 == timecode_to_seconds(a, rate)
        seconds2 == timecode_to_seconds(b, rate)
        total    == RatAdd(seconds1, seconds2)
    IN  seconds_to_timecode(total, rate)

---------------------------------------------------------------------------
(* Python dicts: functions whose domain is the set of keys present *)

EmptyDict == [k \in {} |-> 0]

\* d.get(key, default)
dict_get(d, key, default) == IF key \in DOMAIN d THEN d[key] ELSE default

\* d[key]
subscript(d, key) == IF key \in DOMAIN d THEN Return(d[key]) ELSE Raise("KeyError")

---------------------------------------------------------------------------
(* Metadata extractors *)

\* the for loop of get_sample_rate from stream i on
RECURSIVE sample_rate_from(_, _)
sample_rate_from(streams, i) ==
    IF i > Len(streams) THEN Return(48000)
    ELSE IF "sample_rate" \in DOMAIN streams[i]
         THEN int(streams[i]["sample_rate"])
         ELSE sample_rate_from(streams, i + 1)

get_sample_rate(md) == sample_rate_from(dict_get(md, "streams", <<>>), 1)

\* the for loop of get_time_reference from stream i on
RECURSIVE time_reference_from(_, _)
time_reference_from(streams, i) ==
    IF i > Len(streams) THEN Return(0)
    ELSE IF "tags" \in DOMAIN streams[i]
            /\ "time_reference" \in DOMAIN streams[i]["tags"]
         THEN int(streams[i]["tags"]["time_reference"])
         ELSE time_reference_from(streams, i + 1)

get_time_reference(md) ==
    IF /\ "format" \in DOMAIN md
       /\ "tags" \in DOMAIN md["format"]
       /\ "time_reference" \in DOMAIN md["format"]["tags"]
    THEN int(md["format"]["tags"]["time_reference"])
    ELSE time_reference_from(dict_get(md, "streams", <<>>), 1)

\* numerator, denominator = map(int, s.split('/')); numerator / denominator
parse_ratio(s) ==
    LET parts == split(s, "/")
    IN  IF Len(parts) # 2 THEN Raise("ValueError")
        ELSE IF Raised(int(parts[1])) \/ Raised(int(parts[2]))
             THEN Raise("ValueError")
        ELSE IF int(parts[2]).val = 0 THEN Raise("ZeroDivisionError")
        ELSE Return(Rat(int(parts[1]).val, int(parts[2]).val))

\* the for loop of get_frame_rate from stream i on
RECURSIVE frame_rate_from(_, _)
frame_rate_from(streams, i) ==
    IF i > Len(streams) THEN Return(Rat(23976, 1000))
    ELSE IF "r_frame_rate" \in DOMAIN streams[i]
         THEN parse_ratio(streams[i]["r_frame_rate"])
         ELSE frame_rate_from(streams, i + 1)

get_frame_rate(md) == frame_rate_from(dict_get(md, "streams", <<>>), 1)

\* the for loop of get_timecode from stream i on
RECURSIVE timecode_from(_, _)
timecode_from(streams, i) ==
    IF i > Len(streams) THEN Return(<<"0", "0", ":", "0", "0", ":", "0", "0", ":", "0", "0">>)
    ELSE IF "tags" \in DOMAIN streams[i]
            /\ "timecode" \in DOMAIN streams[i]["tags"]
         THEN Return(streams[i]["tags"]["timecode"])
         ELSE timecode_from(streams, i + 1)

\* a variant of get_timecode that searches the streams before format.tags
get_timecode_streams_first(md) ==
    LET streams  == dict_get(md, "streams", <<>>)
        carriers == {i \in 1..Len(streams) :
                        /\ "tags" \in DOMAIN streams[i]
                        /\ "timecode" \in DOMAIN streams[i]["tags"]}
    IN  IF carriers # {}
        THEN Return(streams[CHOOSE i \in carriers : \A j \in carriers : i <= j]
                        ["tags"]["timecode"])
        ELSE IF /\ "format" \in DOMAIN md
                /\ "tags" \in DOMAIN md["format"]
                /\ "timecode" \in DOMAIN md["format"]["tags"]
        THEN Return(md["format"]["tags"]["timecode"])
        ELSE Return(<<"0", "0", ":", "0", "0", ":", "0", "0", ":", "0", "0">>)

get_timecode(md) ==
    IF /\ "format" \in DOMAIN md
       /\ "tags" \in DOMAIN md["format"]
       /\ "timecode" \in DOMAIN md["format"]["tags"]
    THEN Return(md["format"]["tags"]["timecode"])
    ELSE timecode_from(dict_get(md, "streams", <<>>), 1)

---------------------------------------------------------------------------
(* Report builder *)

RECURSIVE Pow10(_)
Pow10(k) == IF k = 0 THEN 1 ELSE 10 * Pow10(k - 1)

\* float(s) on a decimal string "ddd", "ddd.ddd", "ddd." or ".ddd"
float(s) ==
    LET parts == split(s, ".")
        ok(p) == Len(p) = 0 \/ IsDigitString(p)
    IN  IF Len(parts) = 1 /\ IsDigitString(parts[1])
        THEN Return(FromInt(DigitsValue(parts[1])))
        ELSE IF /\ Len(parts) = 2
                /\ ok(parts[1]) /\ ok(parts[2])
                /\ Len(parts[1]) + Len(parts[2]) > 0
        THEN Return(Rat(DigitsValue(parts[1]) * Pow10(Len(parts[2]))
                            + DigitsValue(parts[2]),
                        Pow10(Len(parts[2]))))
        ELSE Raise("ValueError")

\* one line "label: value\n" of the report; the header is "label (value):\n"
Line(label, value) == [label |-> label, value |-> value]

\* the empty line "\n" that ends a block
BlankLine == [label |-> "", value |-> <<>>]

\* a variant of audio_block that converts at the frame rate of the streams
audio_block_stream_rate(name, md) ==
    LET sample_rate    == get_sample_rate(md)
        time_reference == get_time_reference(md)
        rate           == get_frame_rate(md)
    IN  IF Raised(sample_rate) THEN sample_rate
        ELSE IF Raised(time_reference) THEN time_reference
        ELSE IF Raised(rate) THEN rate
        ELSE IF sample_rate.val = 0 THEN Raise("ZeroDivisionError")
        ELSE
        LET start_seconds  == Rat(time_reference.val, sample_rate.val)
            start_timecode == seconds_to_timecode(start_seconds, rate.val)
        IN  Return(<<Line("Audio Results", name),
                     Line("Time Reference", Decimal(time_reference.val)),
                     Line("Sample Rate", Decimal(sample_rate.val)),
                     Line("Start Timecode", start_timecode.val),
                     BlankLine>>)

\* the audio branch of the loop body: the block appended, or the error
audio_block(name, md) ==
    LET sample_rate    == get_sample_rate(md)
        time_reference == get_time_reference(md)
    IN  IF Raised(sample_rate) THEN sample_rate
        ELSE IF Raised(time_reference) THEN time_reference
        ELSE IF sample_rate.val = 0 THEN Raise("ZeroDivisionError")
        ELSE
        LET start_seconds  == Rat(time_reference.val, sample_rate.val)
            start_timecode == seconds_to_timecode(start_seconds, Rat(23976, 1000))
        IN  Return(<<Line("Audio Results", name),
                     Line("Time Reference", Decimal(time_reference.val)),
                     Line("Sample Rate", Decimal(sample_rate.val)),
                     Line("Start Timecode", start_timecode.val),
                     BlankLine>>)

\* a variant of format_duration that takes a missing duration as 0
format_duration_default(md) ==
    IF "format" \in DOMAIN md /\ "duration" \in DOMAIN md["format"]
    THEN float(md["format"]["duration"])
    ELSE Return(FromInt(0))

\* float(metadata['format']['duration'])
format_duration(md) ==
    LET format == subscript(md, "format")
    IN  IF Raised(format) THEN format
        ELSE IF Raised(subscript(format.val, "duration"))
             THEN subscript(format.val, "duration")
        ELSE float(subscript(format.val, "duration").val)

\* the video branch of the loop body: the block appended, or the error
video_block(name, md) ==
    LET rate           == get_frame_rate(md)
        start_timecode == get_timecode(md)
        duration       == format_duration(md)
    IN  IF Raised(rate) THEN rate
        ELSE IF Raised(duration) THEN duration
        ELSE
        LET duration_timecode == seconds_to_timecode(duration.val, rate.val)
        IN  IF Raised(duration_timecode) THEN duration_timecode
            ELSE
            LET end_timecode ==
                    add_timecodes(start_timecode.val, duration_timecode.val)
            IN  Return(<<Line("Video Results", name),
                         Line("Start Timecode", start_timecode.val),
                         Line("End Timecode", end_timecode.val),
                         Line("Duration in Timecode Format", duration_timecode.val),
                         BlankLine>>)

\* what one pass of the loop body appends for a probed file
file_block(type, name, md) ==
    IF type = "audio" THEN audio_block(name, md)
    ELSE IF type = "video" THEN video_block(name, md)
    ELSE Return(<<>>)

\* a variant of append that puts the new block first
prepend(message, block) == block \o message

\* result_message += block
append(message, block) == message \o block

\* a variant of ProcessFile that skips a file whose processing raised and
\* goes on with the next one
ProcessFile_skipping ==
    /\ outcome.pc = "running"
    /\ file_index <= Len(file_paths)
    /\ temp_files' = temp_files + 1
    /\ LET file     == file_paths[file_index]
           probed   == file.probe
           appended == IF Raised(probed) THEN probed
                       ELSE file_block(file_type, file.name, probed.val)
       IN  /\ result_message' = IF Raised(appended) THEN result_message
                                ELSE append(result_message, appended.val)
           /\ file_index' = file_index + 1
           /\ UNCHANGED outcome
    /\ UNCHANGED <<file_paths, file_type>>
    /\ UNCHANGED <<codec_vars, add_vars, extract_vars>>

\* one pass of the for loop of process_metadata: the upload is copied to a
\* temporary file that is kept (delete=False), probed, and its block is
\* appended; an exception leaves the function
ProcessFile ==
    /\ outcome.pc = "running"
    /\ file_index <= Len(file_paths)
    /\ temp_files' = temp_files + 1
    /\ LET file     == file_paths[file_index]
           probed   == file.probe
           appended == IF Raised(probed) THEN probed
                       ELSE file_block(file_type, file.name, probed.val)
       IN  IF Raised(appended)
           THEN /\ outcome' = [pc |-> "raised", exc |-> appended.exc]
                /\ UNCHANGED <<result_message, file_index>>
           ELSE /\ result_message' = append(result_message, appended.val)
                /\ file_index' = file_index + 1
                /\ UNCHANGED outcome
    /\ UNCHANGED <<file_paths, file_type>>
    /\ UNCHANGED <<codec_vars, add_vars, extract_vars>>

\* return result_message
ReturnReport ==
    /\ outcome.pc = "running"
    /\ file_index > Len(file_paths)
    /\ outcome' = [pc |-> "returned", val |-> result_message]
    /\ UNCHANGED <<file_paths, file_type, file_index, result_message, temp_files>>
    /\ UNCHANGED <<codec_vars, add_vars, extract_vars>>

---------------------------------------------------------------------------
(* Inputs of the codec specifications *)

\* a two-digit field and a well-formed timecode
Field(k) == <<Digits[(k \div 10) + 1], Digits[(k % 10) + 1]>>

Timecode(h, m, s, f) ==
    Field(h) \o <<":">> \o Field(m) \o <<":">> \o Field(s) \o <<":">> \o Field(f)

ZeroTimecode == Timecode(0, 0, 0, 0)

\* 23.976 and 29.97 as written in the source and in containers
Rate23976 == Rat(23976, 1000)
Rate2997  == Rat(30000, 1001)

RateSet == {FromInt(24), FromInt(25), FromInt(30), Rate23976, Rate2997}

SecondsSet ==
    {FromInt(0), Rat(1, 2), Rat(9, 10), FromInt(1), Rat(3, 2), FromInt(10),
     FromInt(50), Rat(125, 2), FromInt(100), FromInt(3600), FromInt(86400),
     FromInt(359999), FromInt(360000)}

\* the pairs whose frame count stays within TLC's 32-bit integers
CodecInputs ==
    {p \in SecondsSet \X RateSet : p[1].n <= 2147483647 \div (p[2].n * 2)}

WellFormedTimecodes ==
    {Timecode(h, m, s, f) : h \in {0, 1, 99}, m \in {0, 59},
                            s \in {0, 5, 10, 59}, f \in {0, 12, 23, 30}}

\* strings the pattern does not match at position 1, and one it matches
\* only as a prefix
MalformedTimecodes ==
    {<<>>,
     <<"0", "0", ";", "0", "0", ";", "1", "0", ";", "1", "2">>,
     <<"0", "0", ":", "0", "0", ":", "1", "0", ";", "1", "2">>,
     <<"1", "0", "0", ":", "0", "0", ":", "0", "0", ":", "1", "2">>,
     <<"0", ":", "0", "0", ":", "1", "0", ":", "1", "2">>,
     <<"0", "0", ":", "0", "0", ":", "1", "0">>,
     <<"0", "0", ":", "0", "0", ":", "1", "0", ":", "1">>,
     <<"a", "b", ":", "0", "0", ":", "1", "0", ":", "1", "2">>,
     <<" ", "0", "0", ":", "0", "0", ":", "1", "0", ":", "1", "2">>,
     <<"x", "0", "0", ":", "0", "0", ":", "1", "0", ":", "1", "2">>}

TrailingTimecodes ==
    {Timecode(0, 0, 10, 12) \o <<"x">>,
     Timecode(1, 0, 0, 0) \o <<":", "0", "0">>,
     Timecode(0, 0, 5, 12) \o <<";", "1">>}

FirstTimecodes == WellFormedTimecodes \cup MalformedTimecodes \cup TrailingTimecodes

SecondTimecodes ==
    {Timecode(h, 0, s, f) : h \in {0, 1, 99}, s \in {0, 5, 59}, f \in {0, 12, 23}}
    \cup {Timecode(0, 0, 10, 12) \o <<"x">>,
          <<"0", "0", ";", "0", "0", ";", "1", "0", ";", "1", "2">>}

AddRates == {FromInt(24), FromInt(25), Rate23976}

---------------------------------------------------------------------------
(* Values of the variables a specification does not use *)

IdleCodec ==
    /\ seconds = FromInt(0)
    /\ frame_rate = FromInt(24)
    /\ timecode = Return(<<>>)
    /\ total_seconds = FromInt(0)
    /\ codec_pc = "idle"

IdleAdd ==
    /\ tc1 = <<>>
    /\ tc2 = <<>>
    /\ tc_sum = Return(<<>>)
    /\ add_pc = "idle"

IdleExtract ==
    /\ metadata = <<>>
    /\ extracted = <<>>

IdleReport ==
    /\ file_paths = <<>>
    /\ file_type = "audio"
    /\ file_index = 1
    /\ result_message = <<>>
    /\ temp_files = 0
    /\ outcome = [pc |-> "idle"]

---------------------------------------------------------------------------
(* SpecCodec: seconds_to_timecode, then timecode_to_seconds on its result *)

InitCodec ==
    /\ \E p \in CodecInputs : seconds = p[1] /\ frame_rate = p[2]
    /\ timecode = Return(<<>>)
    /\ total_seconds = FromInt(0)
    /\ codec_pc = "start"
    /\ IdleAdd /\ IdleExtract /\ IdleReport

Encode ==
    /\ codec_pc = "start"
    /\ timecode' = seconds_to_timecode(seconds, frame_rate)
    /\ codec_pc' = IF Raised(timecode') THEN "raised" ELSE "encoded"
    /\ UNCHANGED <<seconds, frame_rate, total_seconds>>
    /\ UNCHANGED <<add_vars, extract_vars, report_vars>>

Decode ==
    /\ codec_pc = "encoded"
    /\ total_seconds' = timecode_to_seconds(timecode.val, frame_rate)
    /\ codec_pc' = "decoded"
    /\ UNCHANGED <<seconds, frame_rate, timecode>>
    /\ UNCHANGED <<add_vars, extract_vars, report_vars>>

NextCodec == Encode \/ Decode

SpecCodec == InitCodec /\ [][NextCodec]_vars

---------------------------------------------------------------------------
(* SpecAdd: timecode_to_seconds and add_timecodes on consumed timecodes *)

InitAdd ==
    /\ tc1 \in FirstTimecodes
    /\ tc2 \in SecondTimecodes
    /\ tc_sum = Return(<<>>)
    /\ add_pc = "start"
    /\ seconds = FromInt(0)
    /\ frame_rate \in AddRates
    /\ timecode = Return(<<>>)
    /\ total_seconds = FromInt(0)
    /\ codec_pc = "idle"
    /\ IdleExtract /\ IdleReport

ParseFirst ==
    /\ add_pc = "start"
    /\ total_seconds' = timecode_to_seconds(tc1, frame_rate)
    /\ add_pc' = "parsed"
    /\ UNCHANGED <<tc1, tc2, tc_sum>>
    /\ UNCHANGED <<seconds, frame_rate, timecode, codec_pc>>
    /\ UNCHANGED <<extract_vars, report_vars>>

AddTimecodes ==
    /\ add_pc = "parsed"
    /\ tc_sum' = add_timecodes(tc1, tc2)
    /\ add_pc' = "added"
    /\ UNCHANGED <<tc1, tc2>>
    /\ UNCHANGED <<codec_vars, extract_vars, report_vars>>

NextAdd == ParseFirst \/ AddTimecodes

SpecAdd == InitAdd /\ [][NextAdd]_vars

---------------------------------------------------------------------------
(* SpecExtract: the four extractors on partially populated metadata *)

\* the longest stream list
MaxStreams == 2

Str48000 == <<"4", "8", "0", "0", "0">>
Str44100 == <<"4", "4", "1", "0", "0">>
Str96000 == <<"9", "6", "0", "0", "0">>
Str24000 == <<"2", "4", "0", "0", "0">>
Str25By1 == <<"2", "5", "/", "1">>
StrNtsc  == <<"3", "0", "0", "0", "0", "/", "1", "0", "0", "1">>
Str10s   == <<"1", "0", ".", "0">>

StreamSet ==
    {EmptyDict,
     [sample_rate |-> Str44100],
     [sample_rate |-> Str48000, tags |-> [time_reference |-> Str96000]],
     [r_frame_rate |-> Str25By1, tags |-> EmptyDict],
     [r_frame_rate |-> StrNtsc, tags |-> [timecode |-> Timecode(10, 0, 0, 0)]],
     [tags |-> [time_reference |-> Str24000, timecode |-> Timecode(0, 0, 5, 12)]]}

StreamLists == UNION {[1..n -> StreamSet] : n \in 0..MaxStreams}

FormatSet ==
    {EmptyDict,
     [tags |-> EmptyDict],
     [duration |-> Str10s],
     [tags |-> [timecode |-> Timecode(1, 0, 0, 0)]],
     [tags |-> [time_reference |-> Str48000]],
     [duration |-> Str10s,
      tags |-> [timecode |-> Timecode(1, 0, 0, 0), time_reference |-> Str48000]]}

\* metadata with each of format and streams present or absent
MetadataSet ==
    {EmptyDict}
    \cup {[format |-> f] : f \in FormatSet}
    \cup {[streams |-> s] : s \in StreamLists}
    \cup {[format |-> f, streams |-> s] : f \in FormatSet, s \in StreamLists}

InitExtract ==
    /\ metadata \in MetadataSet
    /\ extracted = EmptyDict
    /\ IdleCodec /\ IdleAdd /\ IdleReport

\* the results so far with the result r of extractor e
WithResult(e, r) ==
    [k \in DOMAIN extracted \cup {e} |-> IF k = e THEN r ELSE extracted[k]]

GetSampleRate ==
    /\ "get_sample_rate" \notin DOMAIN extracted
    /\ extracted' = WithResult("get_sample_rate", get_sample_rate(metadata))
    /\ UNCHANGED <<metadata, codec_vars, add_vars, report_vars>>

GetTimeReference ==
    /\ "get_time_reference" \notin DOMAIN extracted
    /\ extracted' = WithResult("get_time_reference", get_time_reference(metadata))
    /\ UNCHANGED <<metadata, codec_vars, add_vars, report_vars>>

GetFrameRate ==
    /\ "get_frame_rate" \notin DOMAIN extracted
    /\ extracted' = WithResult("get_frame_rate", get_frame_rate(metadata))
    /\ UNCHANGED <<metadata, codec_vars, add_vars, report_vars>>

GetTimecode ==
    /\ "get_timecode" \notin DOMAIN extracted
    /\ extracted' = WithResult("get_timecode", get_timecode(metadata))
    /\ UNCHANGED <<metadata, codec_vars, add_vars, report_vars>>

NextExtract == GetSampleRate \/ GetTimeReference \/ GetFrameRate \/ GetTimecode

SpecExtract == InitExtract /\ [][NextExtract]_vars

---------------------------------------------------------------------------
(* Spec: process_metadata on a batch of uploaded files *)

\* the longest batch
MaxFiles == 3

Str4410000 == <<"4", "4", "1", "0", "0", "0", "0">>
Str100s    == <<"1", "0", "0", ".", "2">>

\* an upload: its name and what ffmpeg.probe gives for it
File(name, md) == [name |-> name, probe |-> Return(md)]

AudioTagged ==
    File(<<"a">>, [format  |-> [tags |-> [time_reference |-> Str48000]],
                   streams |-> <<[sample_rate |-> Str48000]>>])

AudioRated ==
    File(<<"b">>, [format  |-> [duration |-> Str100s],
                   streams |-> <<[r_frame_rate |-> Str25By1],
                                 [sample_rate |-> Str44100,
                                  tags |-> [time_reference |-> Str4410000]]>>])

Bare == File(<<"c">>, EmptyDict)

VideoDefaultRate ==
    File(<<"d">>, [format  |-> [duration |-> Str10s,
                                tags |-> [timecode |-> Timecode(1, 0, 0, 0)]],
                   streams |-> <<EmptyDict>>])

VideoNtsc ==
    File(<<"e">>, [format  |-> [duration |-> Str100s],
                   streams |-> <<[r_frame_rate |-> StrNtsc,
                                  tags |-> [timecode |-> Timecode(0, 59, 59, 12)]]>>])

VideoNoDuration ==
    File(<<"f">>, [format  |-> [tags |-> [timecode |-> Timecode(1, 0, 0, 0)]],
                   streams |-> <<[r_frame_rate |-> Str25By1]>>])

Unreadable == [name |-> <<"g">>, probe |-> Raise("ffmpeg.Error")]

DurationOnly == File(<<"h">>, [format |-> [duration |-> Str10s]])

\* a drop-frame start timecode, written with ';' before the frames
VideoDropFrame ==
    File(<<"i">>, [format  |-> [duration |-> Str10s],
                   streams |-> <<[r_frame_rate |-> StrNtsc,
                                  tags |-> [timecode |->
                                      <<"0", "1", ":", "0", "0", ":", "0", "0", ";", "0", "0">>]]>>])

FileSet == {AudioTagged, AudioRated, Bare, VideoDefaultRate, VideoNtsc,
            VideoNoDuration, Unreadable, DurationOnly, VideoDropFrame}

Batches == UNION {[1..n -> FileSet] : n \in 0..MaxFiles}

FileTypes == {"audio", "video", "image"}

Init ==
    /\ file_paths \in Batches
    /\ file_type \in FileTypes
    /\ file_index = 1
    /\ result_message = <<>>
    /\ temp_files = 0
    /\ outcome = [pc |-> "running"]
    /\ IdleCodec /\ IdleAdd /\ IdleExtract

Next == ProcessFile \/ ReturnReport

Spec == Init /\ [][Next]_vars

---------------------------------------------------------------------------
(* Claims about the codec *)

Colons     == {3, 6, 9}
DigitPlace == {1, 2, 4, 5, 7, 8, 10, 11}
DigitChars == {"0", "1", "2", "3", "4", "5", "6", "7", "8", "9"}

\* s begins with two digits, colon, two digits, colon, two digits, colon,
\* two digits
BeginsWithTimecode(s) ==
    /\ Len(s) >= 11
    /\ \A i \in DigitPlace : s[i] \in DigitChars
    /\ \A i \in Colons : s[i] = ":"

\* s has exactly the form HH:MM:SS:FF
IsExactTimecode(s) == Len(s) = 11 /\ BeginsWithTimecode(s)

\* the number written in places i and i+1 of s
TwoDigits(s, i) == 10 * DigitVal(s[i]) + DigitVal(s[i + 1])

\* the numbers written in the fields of s between separators sep
NumbersIn(s, sep) ==
    LET f == split(s, sep) IN [i \in 1..Len(f) |-> DigitsValue(f[i])]

\* the numbers written in the colon-separated fields of a string
FieldValues(s) == NumbersIn(s, ":")

\* ((HH*60+MM)*60+SS)*24+FF
FrameCount24(v) == ((v[1] * 60 + v[2]) * 60 + v[3]) * 24 + v[4]

\* C1: every string seconds_to_timecode returns has exactly the form
\* HH:MM:SS:FF, two digits per field, with FF below round(frame_rate),
\* whatever the number of hours.
C1_ExactFormat ==
    codec_pc \in {"encoded", "decoded"} =>
        /\ IsExactTimecode(timecode.val)
        /\ TwoDigits(timecode.val, 10) < round(frame_rate)

\* C2: decoding the encoded timecode at the same rate gives back the
\* seconds to within one frame duration, 1 / frame_rate.
C2_RoundTrip ==
    codec_pc = "decoded" =>
        RatLeq(RatAbsDiff(total_seconds, seconds),
               RatDiv(FromInt(1), frame_rate))

IsWellFormed24(s) == IsExactTimecode(s) /\ TwoDigits(s, 10) < 24

\* C3: for well-formed timecodes with FF below 24, add_timecodes returns
\* the timecode (colon-separated decimal fields, minutes and seconds below
\* 60, frames below 24) whose frame count at 24 fps is the sum of the two
\* frame counts; 00:00:10:00 + 00:00:05:12 is 00:00:15:12 and zero plus
\* zero is zero.
C3_AddAt24 ==
    (add_pc = "added" /\ IsWellFormed24(tc1) /\ IsWellFormed24(tc2)) =>
        /\ ~Raised(tc_sum)
        /\ LET f == split(tc_sum.val, ":")
               v == FieldValues(tc_sum.val)
           IN  /\ Len(f) = 4
               /\ \A i \in 1..4 : IsDigitString(f[i]) /\ Len(f[i]) >= 2
               /\ \A i \in 2..4 : Len(f[i]) = 2
               /\ v[2] < 60 /\ v[3] < 60 /\ v[4] < 24
               /\ FrameCount24(v) =
                     FrameCount24(FieldValues(tc1)) + FrameCount24(FieldValues(tc2))
        /\ (tc1 = Timecode(0, 0, 10, 0) /\ tc2 = Timecode(0, 0, 5, 12)
               => tc_sum.val = Timecode(0, 0, 15, 12))
        /\ (tc1 = ZeroTimecode /\ tc2 = ZeroTimecode
               => tc_sum.val = ZeroTimecode)

\* a sum with a carry out of the frames, seconds and minutes fields
C3_Witness ==
    /\ add_pc = "added"
    /\ tc1 = Timecode(1, 59, 59, 23)
    /\ tc2 = Timecode(0, 0, 59, 12)
    /\ tc_sum.val = Timecode(2, 0, 59, 11)

\* hours*3600 + minutes*60 + seconds + frames/rate of the leading timecode
LeadingSeconds(s, rate) ==
    RatAdd(FromInt(TwoDigits(s, 1) * 3600 + TwoDigits(s, 4) * 60 + TwoDigits(s, 7)),
           RatDiv(FromInt(TwoDigits(s, 10)), rate))

\* C9: a consumed timecode that does not begin with the pattern counts as
\* 00:00:00:00 (timecode_to_seconds is 0 at every rate, add_timecodes gives
\* what it gives for 00:00:00:00); one that begins with the pattern is read
\* from its first eleven characters, the rest ignored.
C9_NoMatchIsZero ==
    /\ (add_pc \in {"parsed", "added"} /\ ~BeginsWithTimecode(tc1))
          => total_seconds = FromInt(0)
    /\ (add_pc = "added" /\ ~BeginsWithTimecode(tc1))
          => /\ ~Raised(tc_sum)
             /\ tc_sum = add_timecodes(ZeroTimecode, tc2)
    /\ (add_pc \in {"parsed", "added"} /\ BeginsWithTimecode(tc1))
          => total_seconds = LeadingSeconds(tc1, frame_rate)
    /\ (add_pc = "added" /\ BeginsWithTimecode(tc1))
          => tc_sum = add_timecodes(SubSeq(tc1, 1, 11), tc2)

\* a start timecode written with ';' added to 00:00:05:12
C9_Witness ==
    /\ add_pc = "added"
    /\ tc1 = <<"0", "0", ";", "0", "0", ";", "1", "0", ";", "1", "2">>
    /\ tc2 = Timecode(0, 0, 5, 12)
    /\ tc_sum.val = Timecode(0, 0, 5, 12)

---------------------------------------------------------------------------
(* Claims about the extractors *)

StreamsOf(md) == IF "streams" \in DOMAIN md THEN md["streams"] ELSE <<>>

HasFormatTag(md, field) ==
    /\ "format" \in DOMAIN md
    /\ "tags" \in DOMAIN md["format"]
    /\ field \in DOMAIN md["format"]["tags"]

\* the streams whose tags carry the field, and those that carry it themselves
TagCarriers(md, field) ==
    {i \in 1..Len(StreamsOf(md)) :
        /\ "tags" \in DOMAIN StreamsOf(md)[i]
        /\ field \in DOMAIN StreamsOf(md)[i]["tags"]}

FieldCarriers(md, field) ==
    {i \in 1..Len(StreamsOf(md)) : field \in DOMAIN StreamsOf(md)[i]}

Least(S) == CHOOSE i \in S : \A j \in S : i <= j

\* format.tags.<field>, else the first stream's tags.<field>, else default
FirstTag(md, field, default) ==
    IF HasFormatTag(md, field) THEN md["format"]["tags"][field]
    ELSE IF TagCarriers(md, field) # {}
         THEN StreamsOf(md)[Least(TagCarriers(md, field))]["tags"][field]
         ELSE default

\* the first stream's <field>, else default
FirstField(md, field, default) ==
    IF FieldCarriers(md, field) # {}
    THEN StreamsOf(md)[Least(FieldCarriers(md, field))][field]
    ELSE default

ExpectedTimeReference(md) == DigitsValue(FirstTag(md, "time_reference", <<"0">>))

ExpectedTimecode(md) == FirstTag(md, "timecode", ZeroTimecode)

ExpectedSampleRate(md) == DigitsValue(FirstField(md, "sample_rate", Str48000))

ExpectedFrameRate(md) ==
    IF FieldCarriers(md, "r_frame_rate") = {} THEN Rat(23976, 1000)
    ELSE LET v == NumbersIn(FirstField(md, "r_frame_rate", <<>>), "/")
         IN  Rat(v[1], v[2])

\* C4: each extractor is a total first-match lookup: format.tags first
\* (time reference, timecode), then the first stream in stream order that
\* carries the field, then the default; no missing key raises, and empty
\* metadata gives 48000, 0, 23.976 and 00:00:00:00.
C4_FirstMatch ==
    /\ \A e \in DOMAIN extracted : ~Raised(extracted[e])
    /\ "get_sample_rate" \in DOMAIN extracted
          => extracted["get_sample_rate"].val = ExpectedSampleRate(metadata)
    /\ "get_time_reference" \in DOMAIN extracted
          => extracted["get_time_reference"].val = ExpectedTimeReference(metadata)
    /\ "get_frame_rate" \in DOMAIN extracted
          => extracted["get_frame_rate"].val = ExpectedFrameRate(metadata)
    /\ "get_timecode" \in DOMAIN extracted
          => extracted["get_timecode"].val = ExpectedTimecode(metadata)
    /\ (metadata = EmptyDict /\ "get_sample_rate" \in DOMAIN extracted)
          => extracted["get_sample_rate"].val = 48000
    /\ (metadata = EmptyDict /\ "get_time_reference" \in DOMAIN extracted)
          => extracted["get_time_reference"].val = 0
    /\ (metadata = EmptyDict /\ "get_frame_rate" \in DOMAIN extracted)
          => extracted["get_frame_rate"].val = [n |-> 2997, d |-> 125]
    /\ (metadata = EmptyDict /\ "get_timecode" \in DOMAIN extracted)
          => extracted["get_timecode"].val = Timecode(0, 0, 0, 0)

\* format carries empty tags, the first stream carries no tags, the second
\* stream carries both tags; no stream carries a frame rate
C4_Witness ==
    /\ metadata =
          [format  |-> [tags |-> EmptyDict],
           streams |-> <<[sample_rate |-> Str44100],
                         [tags |-> [time_reference |-> Str24000,
                                    timecode |-> Timecode(0, 0, 5, 12)]]>>]
    /\ DOMAIN extracted = {"get_sample_rate", "get_time_reference",
                           "get_frame_rate", "get_timecode"}
    /\ extracted["get_sample_rate"].val = 44100
    /\ extracted["get_time_reference"].val = 24000
    /\ extracted["get_frame_rate"].val = [n |-> 2997, d |-> 125]
    /\ extracted["get_timecode"].val = Timecode(0, 0, 5, 12)

---------------------------------------------------------------------------
(* Claims about the report builder *)

\* the metadata of the k-th file and the k-th block of five lines
Meta(k) == file_paths[k].probe.val

BlockOf(text, k) == SubSeq(text, 5 * (k - 1) + 1, 5 * k)

Block(k) == BlockOf(result_message, k)

LacksDuration(md) ==
    "format" \notin DOMAIN md \/ "duration" \notin DOMAIN md["format"]

\* the frame count of fields v when a second holds `base` frames
FrameCount(v, base) == ((v[1] * 60 + v[2]) * 60 + v[3]) * base + v[4]

\* the frame count at 24 fps a consumed timecode stands for: that of its
\* leading HH:MM:SS:FF, or 0 when it does not begin with one
ConsumedFrames24(s) ==
    IF BeginsWithTimecode(s) THEN FrameCount24(FieldValues(SubSeq(s, 1, 11))) ELSE 0

\* C5: a video block reports the start timecode get_timecode finds, the
\* duration as a timecode at the stream's own frame rate, and as end the
\* sum at 24 fps of the fields of the start and of the duration timecode;
\* 01:00:00:00 with duration 10.0 and no r_frame_rate gives 00:00:10:00
\* and 01:00:10:00.
C5_VideoBlock ==
    file_type = "video" =>
        \A k \in 1..(file_index - 1) :
            LET md       == Meta(k)
                b        == Block(k)
                start    == b[2].value
                end      == b[3].value
                dur      == b[4].value
                rate     == ExpectedFrameRate(md)
                duration == float(md["format"]["duration"]).val
                d        == FieldValues(dur)
                e        == FieldValues(end)
            IN  /\ Len(result_message) >= 5 * k
                /\ b[1] = Line("Video Results", file_paths[k].name)
                /\ b[2].label = "Start Timecode"
                /\ start = ExpectedTimecode(md)
                /\ b[4].label = "Duration in Timecode Format"
                /\ Len(d) = 4 /\ d[2] < 60 /\ d[3] < 60 /\ d[4] < round(rate)
                /\ FrameCount(d, round(rate)) = round(RatMul(duration, rate))
                /\ b[3].label = "End Timecode"
                /\ Len(e) = 4 /\ e[2] < 60 /\ e[3] < 60 /\ e[4] < 24
                /\ FrameCount24(e) = ConsumedFrames24(start) + ConsumedFrames24(dur)
                /\ (/\ start = Timecode(1, 0, 0, 0)
                    /\ duration = FromInt(10)
                    /\ FieldCarriers(md, "r_frame_rate") = {})
                      => dur = Timecode(0, 0, 10, 0) /\ end = Timecode(1, 0, 10, 0)

\* the example, then a file at 30000/1001 whose duration timecode counts
\* 30 frames a second and is added at 24
C5_Witness ==
    /\ file_type = "video"
    /\ file_paths = <<VideoDefaultRate, VideoNtsc>>
    /\ outcome.pc = "returned"
    /\ Block(1)[4].value = Timecode(0, 0, 10, 0)
    /\ Block(1)[3].value = Timecode(1, 0, 10, 0)
    /\ Block(2)[4].value = Timecode(0, 1, 40, 3)
    /\ Block(2)[3].value = Timecode(1, 1, 39, 15)

\* C6: an audio block reports as start timecode the time reference
\* divided by the sample rate, converted at 23.976 whatever r_frame_rate
\* the streams carry, with defaults 0 and 48000; 48000 / 48000 gives
\* 00:00:01:00 and no field at all gives 00:00:00:00.
C6_AudioBlock ==
    file_type = "audio" =>
        \A k \in 1..(file_index - 1) :
            LET md == Meta(k)
                b  == Block(k)
                tr == ExpectedTimeReference(md)
                sr == ExpectedSampleRate(md)
                v  == FieldValues(b[4].value)
            IN  /\ Len(result_message) >= 5 * k
                /\ b[1] = Line("Audio Results", file_paths[k].name)
                /\ b[2].label = "Time Reference" /\ DigitsValue(b[2].value) = tr
                /\ b[3].label = "Sample Rate" /\ DigitsValue(b[3].value) = sr
                /\ b[4].label = "Start Timecode"
                /\ Len(v) = 4 /\ v[2] < 60 /\ v[3] < 60 /\ v[4] < 24
                /\ FrameCount24(v) = round(RatMul(Rat(tr, sr), Rat(23976, 1000)))
                /\ (tr = 48000 /\ sr = 48000) => b[4].value = Timecode(0, 0, 1, 0)
                /\ (/\ ~HasFormatTag(md, "time_reference")
                    /\ TagCarriers(md, "time_reference") = {}
                    /\ FieldCarriers(md, "sample_rate") = {})
                      => /\ tr = 0 /\ sr = 48000
                         /\ b[4].value = Timecode(0, 0, 0, 0)

\* the example, then 100 seconds of samples in a file whose first stream
\* runs at 25 fps: 00:01:39:22 at 23.976, where 25 fps would give 00:01:40:00
C6_Witness ==
    /\ file_type = "audio"
    /\ file_paths = <<AudioTagged, AudioRated>>
    /\ outcome.pc = "returned"
    /\ Block(1)[4].value = Timecode(0, 0, 1, 0)
    /\ Block(2)[4].value = Timecode(0, 1, 39, 22)

\* C7: a video file without format.duration ends the call in an error
\* (KeyError), with no block for it, and nothing else missing from a video
\* file's metadata does: a call that raised stopped at a file that could
\* not be probed or that lacks format.duration.
C7_MissingDuration ==
    file_type = "video" =>
        /\ \A k \in 1..Len(file_paths) :
              (~Raised(file_paths[k].probe) /\ LacksDuration(Meta(k))) =>
                  /\ file_index <= k
                  /\ Len(result_message) <= 5 * (k - 1)
                  /\ outcome.pc # "returned"
                  /\ (file_index = k /\ temp_files = k)
                        => outcome = [pc |-> "raised", exc |-> "KeyError"]
        /\ outcome.pc = "raised" =>
              \/ Raised(file_paths[file_index].probe)
              \/ LacksDuration(Meta(file_index))

\* a file with a duration and nothing else is reported with the defaults,
\* the next one has tags and streams but no duration
C7_Witness ==
    /\ file_type = "video"
    /\ file_paths = <<DurationOnly, VideoNoDuration>>
    /\ outcome = [pc |-> "raised", exc |-> "KeyError"]
    /\ file_index = 2
    /\ Len(result_message) = 5
    /\ Block(1)[2].value = Timecode(0, 0, 0, 0)

\* C8: the report returned for n audio or video files is n blocks, the
\* i-th carrying the i-th file's name and values, each block followed by
\* a blank line; for no file it is empty.
C8_BlocksInOrder ==
    (outcome.pc = "returned" /\ file_type \in {"audio", "video"}) =>
        LET text == outcome.val
            n    == Len(file_paths)
        IN  /\ Len(text) = 5 * n
            /\ n = 0 => text = <<>>
            /\ \A i \in 1..n :
                  LET b == BlockOf(text, i)
                  IN  /\ b[1].value = file_paths[i].name
                      /\ b[1].label = (IF file_type = "audio" THEN "Audio Results"
                                       ELSE "Video Results")
                      /\ \A j \in 1..4 : b[j] # BlankLine
                      /\ b[5] = BlankLine
                      /\ file_type = "audio" =>
                            /\ DigitsValue(b[2].value) = ExpectedTimeReference(Meta(i))
                            /\ DigitsValue(b[3].value) = ExpectedSampleRate(Meta(i))
                      /\ file_type = "video" =>
                            b[2].value = ExpectedTimecode(Meta(i))

C8_Witness ==
    /\ file_type = "audio"
    /\ file_paths = <<AudioRated, AudioTagged, Bare>>
    /\ outcome.pc = "returned"
    /\ Len(outcome.val) = 15
    /\ outcome.val[1].value = <<"b">>
    /\ outcome.val[6].value = <<"a">>
    /\ outcome.val[11].value = <<"c">>
    /\ outcome.val[15] = BlankLine

\* the file cannot be probed, or is a video file without format.duration
Fails(type, f) ==
    Raised(f.probe) \/ (type = "video" /\ LacksDuration(f.probe.val))

\* C10: when the k-th file fails the call ends in the error and returns no
\* text: the blocks of files 1..k-1 are not delivered, files k+1..n are
\* never staged or probed, and nothing more happens; a report is returned
\* only when no file of the batch failed.
C10_AllOrNothing ==
    /\ "val" \in DOMAIN outcome => outcome.pc = "returned"
    /\ outcome.pc = "raised" =>
          /\ file_index <= Len(file_paths)
          /\ Fails(file_type, file_paths[file_index])
          /\ \A k \in 1..(file_index - 1) : ~Fails(file_type, file_paths[k])
          /\ temp_files = file_index
          /\ ~ENABLED Next
    /\ outcome.pc = "returned" =>
          /\ \A k \in 1..Len(file_paths) : ~Fails(file_type, file_paths[k])
          /\ temp_files = Len(file_paths)
    /\ (\E k \in 1..Len(file_paths) : Fails(file_type, file_paths[k]))
          => outcome.pc # "returned"

\* the second of three files cannot be probed: one block was built, the
\* third file was never touched
C10_Witness ==
    /\ file_type = "audio"
    /\ file_paths = <<AudioTagged, Unreadable, AudioRated>>
    /\ outcome = [pc |-> "raised", exc |-> "ffmpeg.Error"]
    /\ file_index = 2
    /\ temp_files = 2
    /\ Len(result_message) = 5

===========================================================================
